---- MODULE Spec2Model ----
(***************************************************************************)
(* Document ingestion and retrieval of the reminder service:               *)
(* DocumentService.upload_document, get_document_by_id,                    *)
(* get_all_documents_by_category and the per-period upload count, together *)
(* with the stores they act on (blob store, document / document_upload /   *)
(* question tables, work queue) and the subscription table they read.      *)
(* Every await and every call to an external client is one step, so calls  *)
(* of different requests interleave between them.                          *)
(***************************************************************************)
EXTENDS Integers, Sequences, FiniteSets, TLC

\* ------------------------------------------------------------------ bounds
MaxDegree == 2          \* most requests in flight at the same time
MaxKeys == 4            \* storage keys generated in one behaviour
MaxFaults == 1          \* failures of external calls in one behaviour
MaxSubChanges == 1      \* changes of the subscription table in one behaviour
MaxTime == 2            \* the clock runs over 0..MaxTime
MaxQuestions == 2       \* rows of the question table
MaxDelivered == 2       \* largest delivered_count of a question
MaxServiceKeys == 2     \* storage keys generated while reads interleave

\* --------------------------------------------------------------- constants
FREE_PLAN_MONTHLY_MAX_DOCUMENT_NUM == 2
PRO_PLAN_MONTHLY_MAX_DOCUMENT_NUM == 3
DOCUMENT_MAX_LEN == 15000

Members == {"m1", "m2"}
PlanTypes == {"FREE", "PRO"}
Formats == {"TXT", "MD"}
Times == 0..MaxTime

\* The category table: category 1 belongs to m1, category 2 to m2; no category 42.
Categories == {[id |-> 1, member_id |-> "m1"], [id |-> 2, member_id |-> "m2"]}
CategoryIds == {1, 2, 42}

\* Raw byte contents: body identifies the bytes, nchars is the number of
\* characters they decode to.
Contents ==
    { [body |-> "a", nchars |-> DOCUMENT_MAX_LEN - 1],
      [body |-> "b", nchars |-> DOCUMENT_MAX_LEN],
      [body |-> "c", nchars |-> DOCUMENT_MAX_LEN + 1],
      [body |-> "d", nchars |-> 1] }
NoContent == [body |-> "", nchars |-> 0]

\* EDocument as handed to upload_document: content_bytes, format, category_id.
EDocument(body, format, category_id) ==
    [content_bytes |-> CHOOSE c \in Contents : c.body = body,
     format |-> format, category_id |-> category_id]

\* The documents of m1's requests: just under the size limit in its own
\* category, in another member's and in a missing one; at the limit; over the
\* limit in a missing category.  m2 uploads one document, to its own category.
EDocuments ==
    { EDocument("a", "TXT", 1), EDocument("a", "MD", 2), EDocument("a", "TXT", 42),
      EDocument("b", "MD", 1), EDocument("c", "TXT", 42) }
UploadRequests ==
    { <<"m1", e>> : e \in EDocuments } \cup { <<"m2", EDocument("a", "MD", 2)>> }
\* Uploads that pass every check: two texts of m1, one of m2.
ServiceRequests ==
    { <<"m1", EDocument("a", "TXT", 1)>>, <<"m1", EDocument("d", "MD", 1)>>,
      <<"m2", EDocument("a", "MD", 2)>> }
NoEDocument == [content_bytes |-> NoContent, format |-> "", category_id |-> 0]

\* Subscription rows; NoSubscription stands for "the member has none".
Subscriptions ==
    { [plan_type |-> pt, purchased_date |-> p, expire_date |-> e] :
        pt \in PlanTypes, p \in Times, e \in Times }
Periods == { s \in Subscriptions : s.purchased_date < s.expire_date }
NoSubscription == [plan_type |-> "NONE", purchased_date |-> 0, expire_date |-> 0]

\* bytes.decode of the stored object under its format: the text and its length.
NoText == [format |-> "", text |-> "", len |-> 0]
Decode(content_bytes, format) ==
    [format |-> format, text |-> content_bytes.body, len |-> content_bytes.nchars]

decode_contenet_str(edocument) == Decode(edocument.content_bytes, edocument.format)

VARIABLES
    now,               \* the clock that stamps upload_date
    subscription,      \* member -> current subscription row
    s3,                \* blob store: set of [key, content_bytes, format]
    uuid_count,        \* storage keys generated so far
    documents,         \* document table, id = position
    document_uploads,  \* document_upload table
    questions,         \* question table, id = position
    queue,             \* work queue
    calls,             \* worker -> the locals of its current or last request
    degree,            \* slots in use (the concurrency degree)
    n_faults,          \* external calls that have failed
    n_sub_changes,     \* subscription changes made
    fresh_period       \* member -> the current subscription started with no
                       \* in-period upload and no request of the member open

vars == <<now, subscription, s3, uuid_count, documents, document_uploads,
          questions, queue, calls, degree, n_faults, n_sub_changes,
          fresh_period>>

environment == <<now, subscription, n_sub_changes, fresh_period>>
stores == <<s3, uuid_count, documents, document_uploads, questions, queue>>

Slots == 1..MaxDegree

\* --------------------------------------------------------------- responses
NoResult ==
    [kind |-> "none", error |-> "", id |-> 0, content |-> NoText,
     questions |-> <<>>, documents |-> <<>>]
Error(name) == [NoResult EXCEPT !.kind = "error", !.error = name]
UploadDocumentResponse(id) == [NoResult EXCEPT !.kind = "ok", !.id = id]

Idle ==
    [pc |-> "idle", op |-> "none", member_id |-> "", edocument |-> NoEDocument,
     arg |-> 0, plan_type |-> "NONE", purchased_date |-> 0, expire_date |-> 0,
     count |-> 0, s3_key |-> 0, document_id |-> 0, rows |-> <<>>,
     result |-> NoResult, epoch |-> 0]

Raise(c, name) == [c EXCEPT !.pc = "done", !.result = Error(name)]

\* ------------------------------------------------------------ repositories
\* CategoryRepository.find_or_none_by_id(member_id, category_id)
CategoryExists(member_id, category_id) ==
    \E c \in Categories : c.id = category_id /\ c.member_id = member_id

\* DocumentUploadRepository.find_all_by_member_id
find_all_by_member_id(uploads, member_id) ==
    SelectSeq(uploads, LAMBDA u : u.member_id = member_id)

\* ------------------------------------------------------------ quota count
\* The window with its start excluded.
InCurrentSubscriptionOpenStart(doc, purchased_date, expire_date) ==
    doc.upload_date > purchased_date /\ doc.upload_date < expire_date

\* The window with its end included.
InCurrentSubscriptionClosed(doc, purchased_date, expire_date) ==
    doc.upload_date >= purchased_date /\ doc.upload_date <= expire_date

InCurrentSubscription(doc, purchased_date, expire_date) ==
    doc.upload_date >= purchased_date /\ doc.upload_date < expire_date

\* The count over the rows of every member.
NumUploadedDocumentsOfAll(uploads, member_id, purchased_date, expire_date) ==
    Len(SelectSeq(uploads,
                  LAMBDA doc : InCurrentSubscription(doc, purchased_date, expire_date)))

\* The count without the period filter: every upload the member ever made.
NumUploadedDocumentsEver(uploads, member_id, purchased_date, expire_date) ==
    Len(find_all_by_member_id(uploads, member_id))

NumUploadedDocuments(uploads, member_id, purchased_date, expire_date) ==
    Len(SelectSeq(find_all_by_member_id(uploads, member_id),
                  LAMBDA doc : InCurrentSubscription(doc, purchased_date, expire_date)))

\* The plan-limit check with > for >=.
PlanLimitErrorOffByOne(plan_type, num_uploaded) ==
    IF plan_type = "FREE"
    THEN IF num_uploaded > FREE_PLAN_MONTHLY_MAX_DOCUMENT_NUM
         THEN "FreePlanDocumentUploadLimitExceedError" ELSE ""
    ELSE IF plan_type = "PRO"
    THEN IF num_uploaded > PRO_PLAN_MONTHLY_MAX_DOCUMENT_NUM
         THEN "ProPlanDocumentUploadLimitExceedError" ELSE ""
    ELSE "ValueError"

\* The plan-limit check with the two maxima exchanged.
PlanLimitErrorSwapped(plan_type, num_uploaded) ==
    IF plan_type = "FREE"
    THEN IF num_uploaded >= PRO_PLAN_MONTHLY_MAX_DOCUMENT_NUM
         THEN "FreePlanDocumentUploadLimitExceedError" ELSE ""
    ELSE IF plan_type = "PRO"
    THEN IF num_uploaded >= FREE_PLAN_MONTHLY_MAX_DOCUMENT_NUM
         THEN "ProPlanDocumentUploadLimitExceedError" ELSE ""
    ELSE "ValueError"

\* The plan-limit check of upload_document: the error raised, "" if none.
PlanLimitError(plan_type, num_uploaded) ==
    IF plan_type = "FREE"
    THEN IF num_uploaded >= FREE_PLAN_MONTHLY_MAX_DOCUMENT_NUM
         THEN "FreePlanDocumentUploadLimitExceedError" ELSE ""
    ELSE IF plan_type = "PRO"
    THEN IF num_uploaded >= PRO_PLAN_MONTHLY_MAX_DOCUMENT_NUM
         THEN "ProPlanDocumentUploadLimitExceedError" ELSE ""
    ELSE "ValueError"

\* The size check with > for >=.
MaxLengthExceededStrict(edocument) == decode_contenet_str(edocument).len > DOCUMENT_MAX_LEN

\* The size check of upload_document.
MaxLengthExceeded(edocument) == decode_contenet_str(edocument).len >= DOCUMENT_MAX_LEN

\* ------------------------------------------------------------------- Init
EmptyStores ==
    /\ s3 = {}
    /\ uuid_count = 0
    /\ documents = <<>>
    /\ document_uploads = <<>>
    /\ questions = <<>>
    /\ queue = <<>>

Init ==
    /\ now = 0
    /\ \E pt \in PlanTypes :
         subscription = [m \in Members |->
            [plan_type |-> IF m = "m1" THEN pt ELSE "FREE",
             purchased_date |-> 0, expire_date |-> MaxTime]]
    /\ EmptyStores
    /\ calls = [p \in Slots |-> Idle]
    /\ degree \in 1..MaxDegree
    /\ n_faults = 0
    /\ n_sub_changes = 0
    /\ fresh_period = [m \in Members |-> TRUE]

\* ------------------------------------------------------------ environment
Tick ==
    /\ now < MaxTime
    /\ now' = now + 1
    /\ UNCHANGED <<subscription, n_sub_changes, fresh_period, stores, calls,
                   degree, n_faults>>

Running(p) == calls[p].pc \notin {"idle", "done"}
Open(member_id) == \E p \in Slots : Running(p) /\ calls[p].member_id = member_id

\* The subscription table is written by the purchase flow, outside this service.
ChangeSubscription(m, s) ==
    /\ n_sub_changes < MaxSubChanges
    /\ s # subscription[m]
    /\ subscription' = [subscription EXCEPT ![m] = s]
    /\ n_sub_changes' = n_sub_changes + 1
    /\ fresh_period' = [fresh_period EXCEPT ![m] =
            /\ ~Open(m)
            /\ s.purchased_date <= now
            /\ NumUploadedDocuments(document_uploads, m, s.purchased_date, s.expire_date) = 0]
    /\ UNCHANGED <<now, stores, calls, degree, n_faults>>

\* ------------------------------------------------------- request scheduling
\* The request of worker p goes on as c.  At pc "done" it has returned its
\* response, and the worker is free for the next request.
Continue(p, c) == calls' = [calls EXCEPT ![p] = c]

\* The lowest free worker takes the next request.
FreeSlot(p) ==
    /\ p <= degree
    /\ ~Running(p)
    /\ \A q \in Slots : q < p => Running(q)

\* Every upload that may still generate a storage key reserves one.
BeforeKey == {"get_subscription", "quota_subscription", "quota_count", "find_category", "s3_upload"}
KeysLeft == uuid_count + Cardinality({q \in Slots : calls[q].pc \in BeforeKey}) < MaxKeys

StartUpload(p, m, e) ==
    /\ FreeSlot(p)
    /\ KeysLeft
    /\ calls' = [calls EXCEPT ![p] =
                    [Idle EXCEPT !.pc = "get_subscription", !.op = "upload",
                                 !.member_id = m, !.edocument = e,
                                 !.epoch = n_sub_changes]]
    /\ UNCHANGED <<environment, stores, degree, n_faults>>

\* An external call of a request either succeeds or, while the budget of
\* failures lasts, fails.
Succeeds == n_faults' = n_faults
Fails == n_faults < MaxFaults /\ n_faults' = n_faults + 1

\* --------------------------------------------------------- upload_document
\* line 58: subscription_service.get_current_subscription_by_member_id
GetSubscription(p) ==
    /\ calls[p].pc = "get_subscription"
    /\ LET c == calls[p]
           sub == subscription[c.member_id]
       IN Continue(p,
                IF sub = NoSubscription
                THEN Raise(c, "SubscriptionNotFound")
                ELSE [c EXCEPT !.pc = "quota_subscription", !.plan_type = sub.plan_type])
    /\ UNCHANGED <<environment, stores, degree, n_faults>>

\* lines 150-152: the count reads the current subscription again
QuotaSubscription(p) ==
    /\ calls[p].pc = "quota_subscription"
    /\ LET c == calls[p]
           sub == subscription[c.member_id]
       IN Continue(p,
                IF sub = NoSubscription
                THEN Raise(c, "SubscriptionNotFound")
                ELSE [c EXCEPT !.pc = "quota_count",
                               !.purchased_date = sub.purchased_date,
                               !.expire_date = sub.expire_date])
    /\ UNCHANGED <<environment, stores, degree, n_faults>>

\* The size checked before the plan limit.
CheckedCallSizeFirst(c, count) ==
    LET limit == PlanLimitError(c.plan_type, count)
        d == [c EXCEPT !.count = count]
    IN  IF MaxLengthExceeded(c.edocument) THEN Raise(d, "DocumentMaxLengthExceedError")
        ELSE IF limit # "" THEN Raise(d, limit)
        ELSE [d EXCEPT !.pc = "find_category"]

\* lines 60-74: the plan limit, then the size (no await in between)
CheckedCall(c, count) ==
    LET limit == PlanLimitError(c.plan_type, count)
        d == [c EXCEPT !.count = count]
    IN  IF limit # "" THEN Raise(d, limit)
        ELSE IF MaxLengthExceeded(c.edocument) THEN Raise(d, "DocumentMaxLengthExceedError")
        ELSE [d EXCEPT !.pc = "find_category"]

\* lines 155-163, then 60-74: read the member's uploads, count those of the
\* period, and check
QuotaCount(p) ==
    /\ calls[p].pc = "quota_count"
    /\ LET c == calls[p]
           count == NumUploadedDocuments(document_uploads, c.member_id,
                                         c.purchased_date, c.expire_date)
       IN Continue(p, CheckedCall(c, count))
    /\ UNCHANGED <<environment, stores, degree, n_faults>>

\* The category looked up only after the blob has been uploaded.
FindCategoryAfterUpload(p) ==
    /\ calls[p].pc = "find_category"
    /\ uuid_count' = uuid_count + 1
    /\ LET c == [calls[p] EXCEPT !.s3_key = uuid_count + 1]
       IN /\ s3' = s3 \cup {[key |-> c.s3_key,
                              content_bytes |-> c.edocument.content_bytes,
                              format |-> c.edocument.format]}
          /\ Continue(p,
                IF CategoryExists(c.member_id, c.edocument.category_id)
                THEN [c EXCEPT !.pc = "save_document"]
                ELSE Raise(c, "CategoryNotFoundError"))
    /\ UNCHANGED <<environment, documents, document_uploads, questions, queue,
                   degree, n_faults>>

\* lines 77-80
FindCategory(p) ==
    /\ calls[p].pc = "find_category"
    /\ LET c == calls[p]
       IN Continue(p,
                IF CategoryExists(c.member_id, c.edocument.category_id)
                THEN [c EXCEPT !.pc = "s3_upload"]
                ELSE Raise(c, "CategoryNotFoundError"))
    /\ UNCHANGED <<environment, stores, degree, n_faults>>

\* The upload's failure swallowed: the request goes on without a blob.
S3UploadIgnoringFailure(p) ==
    /\ calls[p].pc = "s3_upload"
    /\ uuid_count' = uuid_count + 1
    /\ LET c == [calls[p] EXCEPT !.s3_key = uuid_count + 1]
       IN \/ /\ Succeeds
             /\ s3' = s3 \cup {[key |-> c.s3_key,
                                content_bytes |-> c.edocument.content_bytes,
                                format |-> c.edocument.format]}
             /\ Continue(p, [c EXCEPT !.pc = "save_document"])
          \/ /\ Fails
             /\ s3' = s3
             /\ Continue(p, [c EXCEPT !.pc = "save_document"])
    /\ UNCHANGED <<environment, documents, document_uploads, questions, queue,
                   degree>>

\* lines 83-87: a fresh key, then s3_client.upload_bytes_obj
S3Upload(p) ==
    /\ calls[p].pc = "s3_upload"
    /\ uuid_count' = uuid_count + 1
    /\ LET c == [calls[p] EXCEPT !.s3_key = uuid_count + 1]
       IN \/ /\ Succeeds
             /\ s3' = s3 \cup {[key |-> c.s3_key,
                                content_bytes |-> c.edocument.content_bytes,
                                format |-> c.edocument.format]}
             /\ Continue(p, [c EXCEPT !.pc = "save_document"])
          \/ /\ Fails
             /\ s3' = s3
             /\ Continue(p, Raise(c, "S3Error"))
    /\ UNCHANGED <<environment, documents, document_uploads, questions, queue,
                   degree>>

\* A compensating delete of the blob when the save fails.
SaveDocumentWithCleanup(p) ==
    /\ calls[p].pc = "save_document"
    /\ LET c == calls[p]
           id == Len(documents) + 1
       IN \/ /\ Succeeds
             /\ documents' = Append(documents,
                    [id |-> id, category_id |-> c.edocument.category_id,
                     s3_key |-> c.s3_key, format |-> c.edocument.format])
             /\ s3' = s3
             /\ Continue(p, [c EXCEPT !.pc = "save_document_upload", !.document_id = id])
          \/ /\ Fails
             /\ documents' = documents
             /\ s3' = {o \in s3 : o.key # c.s3_key}
             /\ Continue(p, Raise(c, "DocumentSaveError"))
    /\ UNCHANGED <<environment, uuid_count, document_uploads, questions, queue,
                   degree>>

\* line 90: document_repository.save returns the generated id
SaveDocument(p) ==
    /\ calls[p].pc = "save_document"
    /\ LET c == calls[p]
           id == Len(documents) + 1
       IN \/ /\ Succeeds
             /\ documents' = Append(documents,
                    [id |-> id, category_id |-> c.edocument.category_id,
                     s3_key |-> c.s3_key, format |-> c.edocument.format])
             /\ Continue(p,
                            [c EXCEPT !.pc = "save_document_upload", !.document_id = id])
          \/ /\ Fails
             /\ documents' = documents
             /\ Continue(p, Raise(c, "DocumentSaveError"))
    /\ UNCHANGED <<environment, s3, uuid_count, document_uploads, questions, queue,
                   degree>>

\* lines 92-96: the DocumentUpload row, stamped with the time of the insert
SaveDocumentUpload(p) ==
    /\ calls[p].pc = "save_document_upload"
    /\ LET c == calls[p]
       IN \/ /\ Succeeds
             /\ document_uploads' = Append(document_uploads,
                    [member_id |-> c.member_id, document_id |-> c.document_id,
                     upload_date |-> now])
             /\ Continue(p, [c EXCEPT !.pc = "sqs_put"])
          \/ /\ Fails
             /\ document_uploads' = document_uploads
             /\ Continue(p, Raise(c, "DocumentUploadSaveError"))
    /\ UNCHANGED <<environment, s3, uuid_count, documents, questions, queue,
                   degree>>

\* The DocumentUpload row deleted again when the enqueue fails.
SqsPutWithCleanup(p) ==
    /\ calls[p].pc = "sqs_put"
    /\ LET c == calls[p]
       IN \/ /\ Succeeds
             /\ queue' = Append(queue,
                    [s3_key |-> c.s3_key, db_pk |-> c.document_id,
                     subscription_plan |-> c.plan_type])
             /\ document_uploads' = document_uploads
             /\ Continue(p,
                    [c EXCEPT !.pc = "done",
                              !.result = UploadDocumentResponse(c.document_id)])
          \/ /\ Fails
             /\ queue' = queue
             /\ document_uploads' =
                    SelectSeq(document_uploads, LAMBDA u : u.document_id # c.document_id)
             /\ Continue(p, Raise(c, "SQSError"))
    /\ UNCHANGED <<environment, s3, uuid_count, documents, questions, degree>>

\* The message carries document_upload_id as db_pk.
SqsPutUploadIdInMessage(p) ==
    /\ calls[p].pc = "sqs_put"
    /\ LET c == calls[p]
           document_upload_id ==
               CHOOSE i \in DOMAIN document_uploads :
                   document_uploads[i].document_id = c.document_id
       IN \/ /\ Succeeds
             /\ queue' = Append(queue,
                    [s3_key |-> c.s3_key, db_pk |-> document_upload_id,
                     subscription_plan |-> c.plan_type])
             /\ Continue(p,
                    [c EXCEPT !.pc = "done",
                              !.result = UploadDocumentResponse(c.document_id)])
          \/ /\ Fails
             /\ queue' = queue
             /\ Continue(p, Raise(c, "SQSError"))
    /\ UNCHANGED <<environment, s3, uuid_count, documents, document_uploads, questions,
                   degree>>

\* The response carries document_upload_id instead of document_id.
SqsPutReturnsUploadId(p) ==
    /\ calls[p].pc = "sqs_put"
    /\ LET c == calls[p]
           document_upload_id ==
               CHOOSE i \in DOMAIN document_uploads :
                   document_uploads[i].document_id = c.document_id
       IN \/ /\ Succeeds
             /\ queue' = Append(queue,
                    [s3_key |-> c.s3_key, db_pk |-> c.document_id,
                     subscription_plan |-> c.plan_type])
             /\ Continue(p,
                    [c EXCEPT !.pc = "done",
                              !.result = UploadDocumentResponse(document_upload_id)])
          \/ /\ Fails
             /\ queue' = queue
             /\ Continue(p, Raise(c, "SQSError"))
    /\ UNCHANGED <<environment, s3, uuid_count, documents, document_uploads, questions,
                   degree>>

\* lines 99-102: sqs_client.put, then the response
SqsPut(p) ==
    /\ calls[p].pc = "sqs_put"
    /\ LET c == calls[p]
       IN \/ /\ Succeeds
             /\ queue' = Append(queue,
                    [s3_key |-> c.s3_key, db_pk |-> c.document_id,
                     subscription_plan |-> c.plan_type])
             /\ Continue(p,
                    [c EXCEPT !.pc = "done", !.result = UploadDocumentResponse(c.document_id)])
          \/ /\ Fails
             /\ queue' = queue
             /\ Continue(p, Raise(c, "SQSError"))
    /\ UNCHANGED <<environment, s3, uuid_count, documents, document_uploads, questions,
                   degree>>

UploadStep(p) ==
    \/ GetSubscription(p)
    \/ QuotaSubscription(p)
    \/ QuotaCount(p)
    \/ FindCategory(p)
    \/ S3Upload(p)
    \/ SaveDocument(p)
    \/ SaveDocumentUpload(p)
    \/ SqsPut(p)

\* ------------------------------------------------------ get_document_by_id
\* DocumentRepository.find_by_id(member_id, document_id): the document of that
\* id, if its category belongs to the member.
find_by_id(member_id, document_id) ==
    { d \in {documents[i] : i \in DOMAIN documents} :
        d.id = document_id /\ CategoryExists(member_id, d.category_id) }

\* document.questions: the question rows of the document, in table order
QuestionsOf(document_id) ==
    SelectSeq(questions, LAMBDA q : q.document_id = document_id)

\* lines 140-144: the questions of the response
\* The filter with >= for >.
DeliveredOrNot(q) == q.delivered_count >= 0

Delivered(q) == q.delivered_count > 0

QuestionResponseDto(q) == [id |-> q.id]

DeliveredQuestions(rows) ==
    LET kept == SelectSeq(rows, Delivered)
    IN  [i \in DOMAIN kept |-> QuestionResponseDto(kept[i])]

GetDocumentResponse(id, rows, content) ==
    [NoResult EXCEPT !.kind = "ok", !.id = id,
                     !.questions = DeliveredQuestions(rows), !.content = content]

StartGet(p, m, d) ==
    /\ FreeSlot(p)
    /\ calls' = [calls EXCEPT ![p] =
                    [Idle EXCEPT !.pc = "find_document", !.op = "get",
                                 !.member_id = m, !.arg = d]]
    /\ UNCHANGED <<environment, stores, degree, n_faults>>

\* The lookup's None not checked: the request goes on to the blob store.
FindDocumentUnchecked(p) ==
    /\ calls[p].pc = "find_document"
    /\ LET c == calls[p]
           found == find_by_id(c.member_id, c.arg)
       IN Continue(p,
                IF found = {}
                THEN [c EXCEPT !.pc = "get_object", !.document_id = c.arg]
                ELSE LET document == CHOOSE d \in found : TRUE
                     IN  [c EXCEPT !.pc = "get_object", !.document_id = document.id,
                                   !.s3_key = document.s3_key,
                                   !.rows = QuestionsOf(document.id)])
    /\ UNCHANGED <<environment, stores, degree, n_faults>>

\* lines 124-128; the row comes with its questions
FindDocument(p) ==
    /\ calls[p].pc = "find_document"
    /\ LET c == calls[p]
           found == find_by_id(c.member_id, c.arg)
       IN Continue(p,
                IF found = {}
                THEN Raise(c, "DocumentNotFoundError")
                ELSE LET document == CHOOSE d \in found : TRUE
                     IN  [c EXCEPT !.pc = "get_object", !.document_id = document.id,
                                   !.s3_key = document.s3_key,
                                   !.rows = QuestionsOf(document.id)])
    /\ UNCHANGED <<environment, stores, degree, n_faults>>

\* The object taken out of the blob store when it is read.
GetObjectAndDelete(p) ==
    /\ calls[p].pc = "get_object"
    /\ LET c == calls[p]
           objs == {o \in s3 : o.key = c.s3_key}
       IN \/ /\ Succeeds
             /\ objs # {}
             /\ s3' = s3 \ objs
             /\ LET bucket_obj == CHOOSE o \in objs : TRUE
                    content == Decode(bucket_obj.content_bytes, bucket_obj.format)
                IN Continue(p,
                       [c EXCEPT !.pc = "done",
                                 !.result = GetDocumentResponse(c.document_id, c.rows, content)])
          \/ /\ Fails \/ (objs = {} /\ Succeeds)
             /\ s3' = s3
             /\ Continue(p, Raise(c, "S3Error"))
    /\ UNCHANGED <<environment, uuid_count, documents, document_uploads, questions,
                   queue, degree>>

\* The object fetched under the document's id instead of its storage key.
GetObjectByDocumentId(p) ==
    /\ calls[p].pc = "get_object"
    /\ LET c == calls[p]
           objs == {o \in s3 : o.key = c.document_id}
       IN \/ /\ Succeeds
             /\ objs # {}
             /\ LET bucket_obj == CHOOSE o \in objs : TRUE
                    content == Decode(bucket_obj.content_bytes, bucket_obj.format)
                IN Continue(p,
                       [c EXCEPT !.pc = "done",
                                 !.result = GetDocumentResponse(c.document_id, c.rows, content)])
          \/ /\ Fails \/ (objs = {} /\ Succeeds)
             /\ Continue(p, Raise(c, "S3Error"))
    /\ UNCHANGED <<environment, stores, degree>>

\* lines 129-146: s3_client.get_object, decode, build the response
GetObject(p) ==
    /\ calls[p].pc = "get_object"
    /\ LET c == calls[p]
           objs == {o \in s3 : o.key = c.s3_key}
       IN \/ /\ Succeeds
             /\ objs # {}
             /\ LET bucket_obj == CHOOSE o \in objs : TRUE
                    content == Decode(bucket_obj.content_bytes, bucket_obj.format)
                IN Continue(p,
                       [c EXCEPT !.pc = "done",
                                 !.result = GetDocumentResponse(c.document_id, c.rows, content)])
          \/ /\ Fails \/ (objs = {} /\ Succeeds)
             /\ Continue(p, Raise(c, "S3Error"))
    /\ UNCHANGED <<environment, stores, degree>>

\* ------------------------------------------- get_all_documents_by_category
\* DocumentRepository.find_all_by_category_id(member_id, category_id)
find_all_by_category_id(member_id, category_id) ==
    SelectSeq(documents, LAMBDA d : d.category_id = category_id
                                    /\ CategoryExists(member_id, d.category_id))

DocumentResponseDto(document) == [id |-> document.id]

GetAllDocumentsByCategoryResponse(found) ==
    [NoResult EXCEPT !.kind = "ok",
                     !.documents = [i \in DOMAIN found |-> DocumentResponseDto(found[i])]]

StartList(p, m, category_id) ==
    /\ FreeSlot(p)
    /\ calls' = [calls EXCEPT ![p] =
                    [Idle EXCEPT !.pc = "list_find_category", !.op = "list",
                                 !.member_id = m, !.arg = category_id]]
    /\ UNCHANGED <<environment, stores, degree, n_faults>>

\* The category's None not checked.
ListFindCategoryUnchecked(p) ==
    /\ calls[p].pc = "list_find_category"
    /\ Continue(p, [calls[p] EXCEPT !.pc = "list_find_documents"])
    /\ UNCHANGED <<environment, stores, degree, n_faults>>

\* lines 107-109
ListFindCategory(p) ==
    /\ calls[p].pc = "list_find_category"
    /\ LET c == calls[p]
       IN Continue(p,
                IF CategoryExists(c.member_id, c.arg)
                THEN [c EXCEPT !.pc = "list_find_documents"]
                ELSE Raise(c, "CategoryNotFoundError"))
    /\ UNCHANGED <<environment, stores, degree, n_faults>>

\* lines 111-121
ListFindDocuments(p) ==
    /\ calls[p].pc = "list_find_documents"
    /\ LET c == calls[p]
       IN Continue(p,
                [c EXCEPT !.pc = "done",
                          !.result = GetAllDocumentsByCategoryResponse(
                                        find_all_by_category_id(c.member_id, c.arg))])
    /\ UNCHANGED <<environment, stores, degree, n_faults>>

ReadStep(p) ==
    \/ FindDocument(p)
    \/ GetObject(p)
    \/ ListFindCategory(p)
    \/ ListFindDocuments(p)

\* ---------------------------------------------------------- question table
\* QuestionRepository.sync_save_all: the worker's questions of one document,
\* inserted in order, none delivered yet
_to_question(id, document_id) ==
    [id |-> id, document_id |-> document_id, delivered_count |-> 0]

RECURSIVE sync_save_all(_, _, _)
sync_save_all(table, document_id, n) ==
    IF n = 0 THEN table
    ELSE sync_save_all(Append(table, _to_question(Len(table) + 1, document_id)),
                       document_id, n - 1)

SaveQuestions(document_id, n) ==
    /\ document_id \in DOMAIN documents
    /\ Len(questions) + n <= MaxQuestions
    /\ questions' = sync_save_all(questions, document_id, n)
    /\ UNCHANGED <<environment, s3, uuid_count, documents, document_uploads, queue,
                   calls, degree, n_faults>>

\* The notification mechanism counts a delivery of question i.
Deliver(i) ==
    /\ i \in DOMAIN questions
    /\ questions[i].delivered_count < MaxDelivered
    /\ questions' = [questions EXCEPT ![i].delivered_count = @ + 1]
    /\ UNCHANGED <<environment, s3, uuid_count, documents, document_uploads, queue,
                   calls, degree, n_faults>>

\* ---------------------------------------------------------- specifications
\* Requests of up to `degree` at a time inside one subscription period.
Next ==
    \/ \E p \in Slots, r \in UploadRequests : StartUpload(p, r[1], r[2])
    \/ \E p \in Slots : UploadStep(p)

Spec == Init /\ [][Next]_vars

\* Requests one at a time whose external calls all succeed, while the clock
\* runs and subscriptions change.
InitPeriods ==
    /\ now = 0
    /\ \E pt \in PlanTypes :
         subscription = [m \in Members |->
            [plan_type |-> IF m = "m1" THEN pt ELSE "FREE",
             purchased_date |-> 0, expire_date |-> MaxTime]]
    /\ EmptyStores
    /\ calls = [p \in Slots |-> Idle]
    /\ degree = 1
    /\ n_faults = MaxFaults
    /\ n_sub_changes = 0
    /\ fresh_period = [m \in Members |-> TRUE]

NextPeriods ==
    \/ Next
    \/ Tick
    \/ \E m \in Members, s \in Periods \cup {NoSubscription} : ChangeSubscription(m, s)

SpecPeriods == InitPeriods /\ [][NextPeriods]_vars

\* Retrieval, one request at a time, from a store that holds one uploaded
\* document of each member, while the worker saves questions and the
\* notification mechanism delivers them.
InitRetrieval ==
    /\ now = 0
    /\ subscription = [m \in Members |->
            [plan_type |-> "FREE", purchased_date |-> 0, expire_date |-> MaxTime]]
    /\ s3 = { [key |-> 1, content_bytes |-> EDocument("a", "TXT", 1).content_bytes, format |-> "TXT"],
              [key |-> 2, content_bytes |-> EDocument("a", "MD", 2).content_bytes, format |-> "MD"] }
    /\ uuid_count = 2
    /\ documents = << [id |-> 1, category_id |-> 1, s3_key |-> 1, format |-> "TXT"],
                      [id |-> 2, category_id |-> 2, s3_key |-> 2, format |-> "MD"] >>
    /\ document_uploads = << [member_id |-> "m1", document_id |-> 1, upload_date |-> 0],
                             [member_id |-> "m2", document_id |-> 2, upload_date |-> 0] >>
    /\ questions = <<>>
    /\ queue = << [s3_key |-> 1, db_pk |-> 1, subscription_plan |-> "FREE"],
                  [s3_key |-> 2, db_pk |-> 2, subscription_plan |-> "FREE"] >>
    /\ calls = [p \in Slots |-> Idle]
    /\ degree = 1
    /\ n_faults = 0
    /\ n_sub_changes = 0
    /\ fresh_period = [m \in Members |-> FALSE]

NextRetrieval ==
    \/ \E p \in Slots, m \in Members, d \in 1..(Len(documents) + 1) : StartGet(p, m, d)
    \/ \E p \in Slots, m \in Members, c \in CategoryIds : StartList(p, m, c)
    \/ \E p \in Slots : ReadStep(p)
    \/ \E d \in DOMAIN documents, n \in 1..MaxQuestions : SaveQuestions(d, n)
    \/ \E i \in DOMAIN questions : Deliver(i)

SpecRetrieval == InitRetrieval /\ [][NextRetrieval]_vars

\* Uploads, retrievals and listings of both members interleaved, from empty
\* stores, with external calls that may fail.
InitService ==
    /\ now = 0
    /\ subscription = [m \in Members |->
            [plan_type |-> IF m = "m1" THEN "PRO" ELSE "FREE",
             purchased_date |-> 0, expire_date |-> MaxTime]]
    /\ EmptyStores
    /\ calls = [p \in Slots |-> Idle]
    /\ degree = MaxDegree
    /\ n_faults = 0
    /\ n_sub_changes = 0
    /\ fresh_period = [m \in Members |-> TRUE]

\* Uploads of this specification still to generate a storage key.
ServiceKeysLeft ==
    uuid_count + Cardinality({q \in Slots : calls[q].pc \in BeforeKey}) < MaxServiceKeys

NextService ==
    \/ \E p \in Slots, r \in ServiceRequests :
          ServiceKeysLeft /\ StartUpload(p, r[1], r[2])
    \/ \E p \in Slots : UploadStep(p)
    \/ \E p \in Slots, m \in Members, d \in 1..(Len(documents) + 1) : StartGet(p, m, d)
    \/ \E p \in Slots, m \in Members, c \in CategoryIds : StartList(p, m, c)
    \/ \E p \in Slots : ReadStep(p)

SpecService == InitService /\ [][NextService]_vars

\* ------------------------------------------------------------------ claims
\* What the claims speak of, stated on the tables themselves.
UploadsOf(m) == {i \in DOMAIN document_uploads : document_uploads[i].member_id = m}

\* Upload rows of m stamped inside the half-open window [from, to).
WindowCount(m, from, to) ==
    Cardinality({i \in UploadsOf(m) : document_uploads[i].upload_date \in from..(to - 1)})

InPeriod(m) == WindowCount(m, subscription[m].purchased_date, subscription[m].expire_date)

PlanMax(plan_type) ==
    IF plan_type = "FREE" THEN FREE_PLAN_MONTHLY_MAX_DOCUMENT_NUM
    ELSE PRO_PLAN_MONTHLY_MAX_DOCUMENT_NUM

LimitErrorOf(plan_type) ==
    IF plan_type = "FREE" THEN "FreePlanDocumentUploadLimitExceedError"
    ELSE "ProPlanDocumentUploadLimitExceedError"

LimitErrors == {"FreePlanDocumentUploadLimitExceedError", "ProPlanDocumentUploadLimitExceedError"}
ValidationErrors ==
    LimitErrors \cup {"SubscriptionNotFound", "DocumentMaxLengthExceedError", "CategoryNotFoundError"}
ExternalErrors == {"S3Error", "DocumentSaveError", "DocumentUploadSaveError", "SQSError"}

DoneUpload(p) == calls[p].pc = "done" /\ calls[p].op = "upload"
Ok(p) == calls[p].result.kind = "ok"
ErrorOf(p) == calls[p].result.error

\* The other checks of the request pass: size under the limit, category of the member.
OtherChecksPass(c) ==
    /\ c.edocument.content_bytes.nchars < DOCUMENT_MAX_LEN
    /\ \E k \in Categories : k.id = c.edocument.category_id /\ k.member_id = c.member_id

\* All of m's requests so far ran one after another inside the member's
\* current subscription period, which began with no upload in it.
InsideOnePeriod(m) ==
    /\ degree = 1
    /\ fresh_period[m]
    /\ subscription[m] # NoSubscription
    /\ now < subscription[m].expire_date

\* The request began after the latest change of the subscription table
\* (epoch records the number of changes made when it began), so the
\* subscription it read is the member's current one.
ReadCurrent(c) ==
    LET s == subscription[c.member_id]
    IN  /\ c.epoch = n_sub_changes
        /\ c.plan_type = s.plan_type
        /\ c.purchased_date = s.purchased_date
        /\ c.expire_date = s.expire_date

\* C1: when a member's uploads run one after another inside one subscription
\* period that began with no upload, and the other checks pass, exactly the
\* plan's maximum succeed: the in-period rows never exceed the maximum, a
\* request succeeds as the (count+1)-th while count is below the maximum, and
\* the request that finds the maximum reached fails with the limit error of
\* the member's plan (FREE: FreePlan..., PRO: ProPlan...).
C1_SequentialQuota ==
    \A m \in Members : InsideOnePeriod(m) =>
        LET max == PlanMax(subscription[m].plan_type)
            limit == LimitErrorOf(subscription[m].plan_type)
        IN  /\ InPeriod(m) <= max
            /\ \A p \in Slots :
                 (DoneUpload(p) /\ calls[p].member_id = m /\ ReadCurrent(calls[p])) =>
                    /\ ErrorOf(p) \in LimitErrors => (ErrorOf(p) = limit /\ InPeriod(m) = max)
                    /\ Ok(p) => (InPeriod(m) = calls[p].count + 1 /\ calls[p].count < max)
                    /\ OtherChecksPass(calls[p]) => (Ok(p) \/ ErrorOf(p) = limit)

\* A member of the given plan has made the plan's maximum of uploads in the
\* period, and the next request, which passes the other checks, has failed
\* with the plan's limit error.
LimitReached(plan_type) ==
    \E p \in Slots :
        /\ InsideOnePeriod("m1") /\ subscription["m1"].plan_type = plan_type
        /\ DoneUpload(p) /\ calls[p].member_id = "m1" /\ OtherChecksPass(calls[p])
        /\ ReadCurrent(calls[p])
        /\ ErrorOf(p) = LimitErrorOf(plan_type)
        /\ InPeriod("m1") = PlanMax(plan_type)

C1_Witness == LimitReached("PRO")

C1_WitnessFree == LimitReached("FREE")

\* C2: the count a request obtains is the number of the member's upload rows
\* stamped in [purchased_date, expire_date) of the subscription it read: a row
\* stamped purchased_date counts, a row stamped expire_date does not, and rows
\* outside the window, present or added, do not change the result.
Counted(p) == calls[p].pc \in {"find_category", "s3_upload", "save_document", "save_document_upload"}

RowAt(m, t) == [member_id |-> m, document_id |-> 0, upload_date |-> t]

BlobsOf(key) == {o \in s3 : o.key = key}
DocumentsOfKey(key) == {i \in DOMAIN documents : documents[i].s3_key = key}
UploadRowsOf(id) == {i \in DOMAIN document_uploads : document_uploads[i].document_id = id}
MessagesOf(key, id) == {i \in DOMAIN queue : queue[i].s3_key = key \/ queue[i].db_pk = id}

\* C3: every Document row carries a storage key whose blob is in the blob
\* store, every DocumentUpload row and every queue message belongs to a
\* Document row, and a request whose blob upload failed has written no
\* Document row, no DocumentUpload row and no queue message.
C3_BlobBeforeDocument ==
    /\ \A i \in DOMAIN documents : BlobsOf(documents[i].s3_key) # {}
    /\ \A i \in DOMAIN document_uploads : document_uploads[i].document_id \in DOMAIN documents
    /\ \A i \in DOMAIN queue : queue[i].db_pk \in DOMAIN documents
    /\ \A p \in Slots : (DoneUpload(p) /\ ErrorOf(p) = "S3Error") =>
          /\ calls[p].document_id = 0
          /\ BlobsOf(calls[p].s3_key) = {}
          /\ DocumentsOfKey(calls[p].s3_key) = {}
          /\ MessagesOf(calls[p].s3_key, 0) = {}

\* A request's blob upload has failed while the tables hold other documents.
C3_Witness ==
    \E p \in Slots : DoneUpload(p) /\ ErrorOf(p) = "S3Error" /\ documents # <<>>

\* C4: the step at which an upload fails a validation check (subscription,
\* plan limit, size, category) changes no store, and the request has by then
\* generated no storage key and saved no document: it made no call to the
\* blob store, the tables or the queue.
FailsValidation(p) ==
    /\ calls[p].op = "upload" /\ Running(p)
    /\ calls'[p].pc = "done"
    /\ calls'[p].result.error \in ValidationErrors

ValidationSteps == {"get_subscription", "quota_subscription", "quota_count", "find_category"}

C4_ValidationLeavesStores ==
    [][\A p \in Slots :
          /\ (calls[p].op = "upload" /\ calls[p].pc \in ValidationSteps
                /\ calls'[p] # calls[p]) => UNCHANGED stores
          /\ FailsValidation(p) =>
                /\ calls[p].pc \in ValidationSteps
                /\ calls'[p].s3_key = 0
                /\ calls'[p].document_id = 0]_vars

\* An upload to the missing category 42 has failed with CategoryNotFound,
\* with other documents stored.
C4_Witness ==
    \E p \in Slots :
        /\ DoneUpload(p) /\ ErrorOf(p) = "CategoryNotFoundError"
        /\ calls[p].edocument.category_id = 42
        /\ calls[p].s3_key = 0
        /\ s3 # {}

\* C5: an upload whose decoded text has DOCUMENT_MAX_LEN characters or more
\* never succeeds and, once past the subscription and plan-limit checks,
\* fails with DocumentMaxLengthExceedError; one of DOCUMENT_MAX_LEN - 1
\* characters never fails with that error and, under quota and with an
\* existing category, succeeds unless an external call fails.
SizeOf(c) == c.edocument.content_bytes.nchars
EarlierErrors == LimitErrors \cup {"SubscriptionNotFound"}

C5_SizeLimit ==
    \A p \in Slots : DoneUpload(p) =>
        /\ SizeOf(calls[p]) >= 15000 =>
              /\ ~Ok(p)
              /\ ErrorOf(p) \notin EarlierErrors => ErrorOf(p) = "DocumentMaxLengthExceedError"
        /\ SizeOf(calls[p]) <= 14999 => ErrorOf(p) # "DocumentMaxLengthExceedError"
        /\ (SizeOf(calls[p]) = 14999 /\ OtherChecksPass(calls[p])
              /\ ErrorOf(p) \notin EarlierErrors \cup ExternalErrors) => Ok(p)

\* One upload of exactly 15,000 characters has failed on its size and one of
\* 14,999 has succeeded.
C5_Witness ==
    \E p, q \in Slots :
        /\ DoneUpload(p) /\ SizeOf(calls[p]) = 15000
        /\ ErrorOf(p) = "DocumentMaxLengthExceedError"
        /\ DoneUpload(q) /\ SizeOf(calls[q]) = 14999 /\ Ok(q)

\* C6: two interleaved uploads of one member can both read a count below the
\* plan maximum and both succeed, leaving more in-period rows than the
\* maximum (C6_Witness is that state); and only interleaving does it: with
\* one request at a time the in-period rows never exceed the maximum.
PlanOf(m) == subscription[m].plan_type

C6_BreachOnlyByRace ==
    \A m \in Members : InPeriod(m) > PlanMax(PlanOf(m)) => degree >= 2

C6_Witness ==
    \E p, q \in Slots : \E m \in Members :
        /\ p # q
        /\ DoneUpload(p) /\ Ok(p) /\ calls[p].member_id = m
        /\ DoneUpload(q) /\ Ok(q) /\ calls[q].member_id = m
        /\ calls[p].count < PlanMax(PlanOf(m))
        /\ calls[q].count < PlanMax(PlanOf(m))
        /\ InPeriod(m) > PlanMax(PlanOf(m))

C8_ExactlyOnce ==
    /\ Len(queue) <= Len(document_uploads)
    /\ Len(document_uploads) <= Len(documents)
    /\ Len(documents) <= Cardinality(s3)
    /\ Cardinality(s3) <= uuid_count
    /\ \A p \in Slots : (DoneUpload(p) /\ Ok(p)) =>
          LET c == calls[p]
              id == c.result.id
          IN  /\ BlobsOf(c.s3_key) = {[key |-> c.s3_key,
                                       content_bytes |-> c.edocument.content_bytes,
                                       format |-> c.edocument.format]}
              /\ DocumentsOfKey(c.s3_key) = {id}
              /\ documents[id].id = id
              /\ documents[id].category_id = c.edocument.category_id
              /\ Cardinality(UploadRowsOf(id)) = 1
              /\ \A i \in UploadRowsOf(id) : document_uploads[i].member_id = c.member_id
              /\ Cardinality(MessagesOf(c.s3_key, id)) = 1
              /\ \A i \in MessagesOf(c.s3_key, id) :
                    queue[i] = [s3_key |-> c.s3_key, db_pk |-> id,
                                subscription_plan |-> c.plan_type]

\* An upload has succeeded after a document was saved whose upload row was not.
C8_Witness ==
    \E p \in Slots :
        /\ DoneUpload(p) /\ Ok(p)
        /\ Len(document_uploads) < Len(documents)

\* C9: the step at which an external call of an upload fails ends the request
\* with that error (no second attempt), and leaves every store as it is: the
\* blob, the Document row and the DocumentUpload row written by earlier steps
\* of the request are still there, and no step ever removes a blob or a row.
IsPrefix(s, u) == Len(s) <= Len(u) /\ \A i \in DOMAIN s : u[i] = s[i]

FailsExternally(p) ==
    /\ calls[p].op = "upload" /\ Running(p)
    /\ calls'[p].pc = "done"
    /\ calls'[p].result.error \in ExternalErrors

C9_FailureKeepsEffects ==
    [][/\ s3 \subseteq s3'
       /\ IsPrefix(documents, documents')
       /\ IsPrefix(document_uploads, document_uploads')
       /\ IsPrefix(queue, queue')
       /\ \A p \in Slots : FailsExternally(p) =>
            LET c == calls'[p]
                e == c.result.error
            IN  /\ <<s3, documents, document_uploads, queue>>'
                     = <<s3, documents, document_uploads, queue>>
                /\ e # "S3Error" => \E o \in s3' : o.key = c.s3_key
                /\ e = "DocumentSaveError" =>
                       \A i \in DOMAIN documents' : documents'[i].s3_key # c.s3_key
                /\ e \in {"DocumentUploadSaveError", "SQSError"} =>
                       /\ c.document_id \in DOMAIN documents'
                       /\ documents'[c.document_id].s3_key = c.s3_key
                /\ e = "DocumentUploadSaveError" =>
                       \A i \in DOMAIN document_uploads' :
                           document_uploads'[i].document_id # c.document_id
                /\ e = "SQSError" =>
                       \E i \in DOMAIN document_uploads' :
                           document_uploads'[i].document_id = c.document_id]_vars

\* Saving the Document row has failed and the request's blob is orphaned.
C9_Witness ==
    \E p \in Slots :
        /\ DoneUpload(p) /\ ErrorOf(p) = "DocumentSaveError"
        /\ BlobsOf(calls[p].s3_key) # {}
        /\ DocumentsOfKey(calls[p].s3_key) = {}

\* C10: the questions of a get_document_by_id response are the rows the
\* store returned for the document that have delivered_count > 0, each once
\* and in the store's order: none with delivered_count = 0, none missing.
DoneGet(p) == calls[p].pc = "done" /\ calls[p].op = "get" /\ calls[p].result.kind = "ok"

C10_OnlyDelivered ==
    \A p \in Slots : DoneGet(p) =>
        LET rows == calls[p].rows
            qs == calls[p].result.questions
            \* position in rows of the i-th question of the response
            pos(i) == CHOOSE j \in DOMAIN rows : rows[j].id = qs[i].id
        IN  /\ \A i \in DOMAIN qs :
                  \E j \in DOMAIN rows : rows[j].id = qs[i].id /\ rows[j].delivered_count > 0
            /\ \A j \in DOMAIN rows :
                  rows[j].delivered_count > 0 => \E i \in DOMAIN qs : qs[i].id = rows[j].id
            /\ \A i, k \in DOMAIN qs : i < k => pos(i) < pos(k)
            /\ \A j \in DOMAIN rows : rows[j].document_id = calls[p].document_id

\* A response has left out an undelivered question that comes before a
\* delivered one.
C10_Witness ==
    \E p \in Slots :
        /\ DoneGet(p)
        /\ Len(calls[p].rows) >= 2
        /\ calls[p].rows[1].delivered_count = 0
        /\ calls[p].rows[2].delivered_count > 0
        /\ Len(calls[p].result.questions) = 1

\* The text that decoding the blob stored for document d gives.
StoredText(d) ==
    LET o == CHOOSE o \in s3 : o.key = documents[d].s3_key
    IN  Decode(o.content_bytes, o.format)

\* C11: when an upload of bytes B in format F has returned id d, the blob
\* stored for d decodes to the text of B in F; no later step, of any request,
\* changes what is stored for d; and a retrieval of d returns as content the
\* text decoded from what is stored for d.  Hence the retrieval returns the
\* text of B in F, whatever uploads happen in between.
C11_RoundTrip ==
    /\ [](\A p \in Slots : (DoneUpload(p) /\ Ok(p)) =>
            StoredText(calls[p].result.id) = decode_contenet_str(calls[p].edocument))
    /\ [](\A q \in Slots : DoneGet(q) =>
            /\ calls[q].result.id = calls[q].arg
            /\ calls[q].result.content = StoredText(calls[q].arg))
    /\ [][\A d \in DOMAIN documents :
            d \in DOMAIN documents' /\ StoredText(d)' = StoredText(d)]_vars

\* The second of two uploaded documents has been retrieved by its owner with
\* the text and format it was uploaded with.
C11_Witness ==
    \E p, q \in Slots :
        /\ DoneUpload(p) /\ Ok(p) /\ calls[p].result.id = 2
        /\ calls[p].edocument = EDocument("d", "MD", 1)
        /\ DoneGet(q) /\ calls[q].arg = 2 /\ calls[q].member_id = calls[p].member_id
        /\ calls[q].result.content = [format |-> "MD", text |-> "d", len |-> 1]

\* Document d exists and its category is one of member m.
Owned(m, d) ==
    /\ d \in DOMAIN documents
    /\ \E k \in Categories : k.id = documents[d].category_id /\ k.member_id = m

\* The retrieval has gone on to the blob store.
Fetching(q) ==
    /\ calls[q].op = "get"
    /\ \/ calls[q].pc = "get_object"
       \/ calls[q].pc = "done" /\ calls[q].result.error # "DocumentNotFoundError"

\* C12: the lookup of a retrieval ends the request with DocumentNotFoundError
\* exactly when the member owns no document of that id (none exists, or it
\* is another member's); such a request holds no storage key, and only a
\* request for a document its member owns ever reaches the blob store.
C12_NotFound ==
    /\ [][\A q \in Slots :
            (calls[q].op = "get" /\ calls[q].pc = "find_document" /\ calls'[q] # calls[q]) =>
                IF Owned(calls[q].member_id, calls[q].arg)
                THEN calls'[q].pc = "get_object"
                ELSE /\ calls'[q].pc = "done"
                     /\ calls'[q].result = Error("DocumentNotFoundError")
                     /\ calls'[q].s3_key = 0]_vars
    /\ [](\A q \in Slots : Fetching(q) => Owned(calls[q].member_id, calls[q].arg))

\* m1 has asked for a document of m2 and got DocumentNotFoundError.
C12_Witness ==
    \E q \in Slots :
        /\ calls[q].op = "get" /\ calls[q].pc = "done"
        /\ calls[q].member_id = "m1"
        /\ Owned("m2", calls[q].arg)
        /\ calls[q].result.error = "DocumentNotFoundError"
        /\ calls[q].s3_key = 0

\* Category c exists and belongs to member m.
HasCategory(m, c) == \E k \in Categories : k.id = c /\ k.member_id = m

\* The ids of the documents of category c.
InCategory(c) == {d \in DOMAIN documents : documents[d].category_id = c}

\* C13: the category lookup of a listing ends the request with
\* CategoryNotFoundError exactly when the member has no such category;
\* otherwise the response has one entry for each document of the category,
\* and none for any other document; a listing never goes to the blob store
\* (it holds no storage key and no content at any step).
C13_Listing ==
    /\ [][\A p \in Slots :
            /\ (calls[p].pc = "list_find_category" /\ calls'[p] # calls[p]) =>
                 IF HasCategory(calls[p].member_id, calls[p].arg)
                 THEN calls'[p].pc = "list_find_documents"
                 ELSE /\ calls'[p].pc = "done"
                      /\ calls'[p].result = Error("CategoryNotFoundError")
            /\ (calls[p].pc = "list_find_documents" /\ calls'[p] # calls[p]) =>
                 LET ds == calls'[p].result.documents
                 IN  /\ calls'[p].pc = "done" /\ calls'[p].result.kind = "ok"
                     /\ {ds[i].id : i \in DOMAIN ds} = InCategory(calls[p].arg)
                     /\ Len(ds) = Cardinality(InCategory(calls[p].arg))]_vars
    /\ [](\A p \in Slots : calls[p].op = "list" =>
            /\ calls[p].pc \in {"list_find_category", "list_find_documents", "done"}
            /\ calls[p].s3_key = 0
            /\ calls[p].result.content = NoText)

\* m1 has listed its category and got its one document, while the table
\* also holds a document of another category.
C13_Witness ==
    \E p \in Slots :
        /\ calls[p].op = "list" /\ calls[p].pc = "done" /\ calls[p].result.kind = "ok"
        /\ calls[p].member_id = "m1" /\ calls[p].arg = 1
        /\ Len(calls[p].result.documents) = 1
        /\ InCategory(1) # {} /\ InCategory(2) # {}

\* The error of the earliest check that fails for a request that has found
\* its subscription: plan limit (on the count and plan it read), then size,
\* then category; "" if every check passes.
EarliestError(c) ==
    IF c.count >= PlanMax(c.plan_type) THEN LimitErrorOf(c.plan_type)
    ELSE IF SizeOf(c) >= DOCUMENT_MAX_LEN THEN "DocumentMaxLengthExceedError"
    ELSE IF ~HasCategory(c.member_id, c.edocument.category_id) THEN "CategoryNotFoundError"
    ELSE ""

\* C14: a request that finds no subscription fails with SubscriptionNotFound
\* whatever its document, having evaluated no later check; any other request
\* ends with the error of the earliest failing check in the order plan
\* limit, size, category, and succeeds only if none fails: over quota and
\* too large gives the plan-limit error, too large with a missing category
\* gives DocumentMaxLengthExceedError.
C14_EarliestError ==
    /\ [][\A p \in Slots :
            (calls[p].pc = "get_subscription" /\ calls'[p] # calls[p]
               /\ subscription[calls[p].member_id] = NoSubscription) =>
                 calls'[p] = Raise(calls[p], "SubscriptionNotFound")]_vars
    /\ [](\A p \in Slots : DoneUpload(p) =>
            IF ErrorOf(p) = "SubscriptionNotFound"
            THEN calls[p].count = 0 /\ calls[p].s3_key = 0
            ELSE IF EarliestError(calls[p]) # ""
            THEN ErrorOf(p) = EarliestError(calls[p])
            ELSE ErrorOf(p) \notin ValidationErrors)

\* A request over quota with a document at the size limit has failed with
\* the plan-limit error.
C14_Witness ==
    \E p \in Slots :
        /\ DoneUpload(p)
        /\ calls[p].count >= PlanMax(calls[p].plan_type)
        /\ SizeOf(calls[p]) >= DOCUMENT_MAX_LEN
        /\ ErrorOf(p) \in LimitErrors

\* A request under quota with a document over the size limit for a missing
\* category has failed with DocumentMaxLengthExceedError.
C14_WitnessSize ==
    \E p \in Slots :
        /\ DoneUpload(p)
        /\ calls[p].count < PlanMax(calls[p].plan_type)
        /\ SizeOf(calls[p]) >= DOCUMENT_MAX_LEN
        /\ calls[p].edocument.category_id = 42
        /\ ErrorOf(p) = "DocumentMaxLengthExceedError"

\* A request of a member without subscription, with a document over the size
\* limit, has failed with SubscriptionNotFound.
C14_WitnessSubscription ==
    \E p \in Slots :
        /\ DoneUpload(p)
        /\ SizeOf(calls[p]) >= DOCUMENT_MAX_LEN
        /\ ErrorOf(p) = "SubscriptionNotFound"

\* C15: every queue message names a document id and a storage key such that
\* the Document row of that id has that key, a blob is stored under the key
\* and a DocumentUpload row of the document exists; and the message is
\* enqueued with the plan type the request read for its limit check, which
\* that check passed with.
C15_QueueMessages ==
    /\ [](\A i \in DOMAIN queue :
            /\ queue[i].db_pk \in DOMAIN documents
            /\ documents[queue[i].db_pk].s3_key = queue[i].s3_key
            /\ BlobsOf(queue[i].s3_key) # {}
            /\ UploadRowsOf(queue[i].db_pk) # {}
            /\ queue[i].subscription_plan \in PlanTypes)
    /\ [][\A p \in Slots : (calls[p].pc = "sqs_put" /\ calls'[p] # calls[p] /\ queue' # queue) =>
            /\ queue' = Append(queue, [s3_key |-> calls[p].s3_key,
                                       db_pk |-> calls[p].document_id,
                                       subscription_plan |-> calls[p].plan_type])
            /\ PlanLimitError(calls[p].plan_type, calls[p].count) = ""]_vars

\* Two messages are queued, of a document whose id and storage key differ,
\* after an earlier request lost its DocumentUpload row.
C15_Witness ==
    /\ Len(queue) >= 2
    /\ \E i \in DOMAIN queue : queue[i].db_pk # queue[i].s3_key
    /\ Len(document_uploads) < Len(documents)

\* The uploads of m that have succeeded: a request succeeds in the step that
\* enqueues its message, so they are the queued messages of m's documents.
Succeeded(m) ==
    Cardinality({i \in DOMAIN queue :
        HasCategory(m, documents[queue[i].db_pk].category_id)})

UploadInFlight(m) ==
    \E p \in Slots : Running(p) /\ calls[p].op = "upload" /\ calls[p].member_id = m

C17_NewPeriodPasses ==
    [][\A p \in Slots :
          (calls[p].pc = "quota_count" /\ calls'[p] # calls[p]
             /\ WindowCount(calls[p].member_id, calls[p].purchased_date,
                            calls[p].expire_date) = 0) =>
                /\ calls'[p].count = 0
                /\ calls'[p].result.error \notin LimitErrors]_vars

\* After the subscription changed to a later period, a FREE member who had
\* used up the earlier period's uploads has uploaded again: the request read
\* the new period, counted 0 and succeeded.
C17_Witness ==
    \E p \in Slots :
        /\ DoneUpload(p) /\ Ok(p) /\ calls[p].member_id = "m1"
        /\ calls[p].plan_type = "FREE" /\ calls[p].count = 0
        /\ ReadCurrent(calls[p]) /\ n_sub_changes = 1
        /\ calls[p].purchased_date > 0
        /\ InPeriod("m1") = 1
        /\ Cardinality(UploadsOf("m1")) = FREE_PLAN_MONTHLY_MAX_DOCUMENT_NUM + 1

\* A step of a retrieval, of a listing, or of the upload count of a request.
ReadOnlyStep(p) ==
    /\ calls'[p] # calls[p]
    /\ \/ calls[p].op \in {"get", "list"}
       \/ calls'[p].op \in {"get", "list"}
       \/ calls[p].op = "upload" /\ calls[p].pc \in {"quota_subscription", "quota_count"}

\* C18: no step of get_document_by_id, of get_all_documents_by_category or
\* of the upload count changes the blob store, the Document rows, the
\* DocumentUpload rows, the questions or the queue, whether the request goes
\* on, succeeds or fails.
C18_ReadOnly ==
    [][\A p \in Slots : ReadOnlyStep(p) =>
          UNCHANGED <<s3, documents, document_uploads, questions, queue>>]_vars

\* With documents stored, a retrieval has succeeded and a listing has failed.
C18_Witness ==
    \E p, q \in Slots :
        /\ DoneGet(p)
        /\ calls[q].op = "list" /\ calls[q].pc = "done"
        /\ calls[q].result.error = "CategoryNotFoundError"
        /\ s3 # {} /\ documents # <<>> /\ document_uploads # <<>> /\ queue # <<>>

\* C19: the count a request obtains is the number of its own member's rows
\* in the period it read, whatever rows other members have, and it fails the
\* plan-limit check exactly when that number reaches the maximum of the plan
\* it read; and no step of a request of one member changes the rows, or the
\* in-period count, of another member.
C19_PerMember ==
    /\ [][\A p \in Slots :
            (calls[p].pc = "quota_count" /\ calls'[p] # calls[p]) =>
                LET c == calls[p]
                    own == WindowCount(c.member_id, c.purchased_date, c.expire_date)
                IN  /\ calls'[p].count = own
                    /\ calls'[p].result.error \in LimitErrors <=> own >= PlanMax(c.plan_type)]_vars
    /\ [][\A p \in Slots : calls'[p] # calls[p] =>
            \A a \in Members \ {calls'[p].member_id} :
                /\ {document_uploads[i] : i \in UploadsOf(a)}
                     = {document_uploads'[i] : i \in UploadsOf(a)'}
                /\ InPeriod(a)' = InPeriod(a)]_vars

\* m2 has used up its plan's uploads, and an upload of m1 has then counted 0
\* and succeeded.
C19_Witness ==
    \E p \in Slots :
        /\ DoneUpload(p) /\ Ok(p) /\ calls[p].member_id = "m1" /\ calls[p].count = 0
        /\ InPeriod("m1") = 1
        /\ InPeriod("m2") >= PlanMax(PlanOf("m2"))
====
